---- MODULE Spec2Model ----
(***************************************************************************)
(* A model of nsoap's src/nsoap.js: the path analyzer (getArgumentValue,   *)
(* analyzePath) as operators over character sequences, and the routing     *)
(* executor (route, iterateToEnd) as a state machine with one action per   *)
(* stretch of code between two awaits.                                     *)
(*                                                                         *)
(* Strings are sequences of one-character strings, so that indexOf,        *)
(* substring, split, trim, the identifier regex and the numeric            *)
(* conversion are computed the way the code computes them.  JavaScript     *)
(* values are records tagged by the field t.                               *)
(***************************************************************************)
EXTENDS Integers, Sequences, FiniteSets, TLC

(***************************************************************************)
(* Bounds of the model.                                                    *)
(***************************************************************************)
\* an incremental sequence yields 0..MaxYield elements before it completes
MaxYield == 2
\* options.args holds 0..MaxExtraArgs values
MaxExtraArgs == 1
\* a call is given 0..MaxDicts argument-resolution sources
MaxDicts == 2

(***************************************************************************)
(* Strings.                                                                *)
(***************************************************************************)
Digits == {"0", "1", "2", "3", "4", "5", "6", "7", "8", "9"}
Letters ==
  {"a", "b", "c", "d", "e", "f", "g", "h", "i", "j", "k", "l", "m",
   "n", "o", "p", "q", "r", "s", "t", "u", "v", "w", "x", "y", "z",
   "A", "B", "C", "D", "E", "F", "G", "H", "I", "J", "K", "L", "M",
   "N", "O", "P", "Q", "R", "S", "T", "U", "V", "W", "X", "Y", "Z"}
WhiteSpace == {" "}

\* String.prototype.indexOf for a one-character needle: 0-based, -1 if absent
IndexOf(s, c) ==
  IF \E i \in 1..Len(s) : s[i] = c
  THEN (CHOOSE i \in 1..Len(s) : s[i] = c /\ \A j \in 1..(i - 1) : s[j] # c) - 1
  ELSE -1

\* String.prototype.substring(start, end): both clamped to 0..length and
\* swapped when start > end
Clamp(n, len) == IF n < 0 THEN 0 ELSE IF n > len THEN len ELSE n
Substring(s, start, end) ==
  LET a == Clamp(start, Len(s))
      b == Clamp(end, Len(s))
      lo == IF a <= b THEN a ELSE b
      hi == IF a <= b THEN b ELSE a
  IN  SubSeq(s, lo + 1, hi)

\* String.prototype.split for a one-character separator
RECURSIVE Split(_, _)
Split(s, c) ==
  LET i == IndexOf(s, c)
  IN  IF i = -1 THEN <<s>>
      ELSE <<SubSeq(s, 1, i)>> \o Split(SubSeq(s, i + 2, Len(s)), c)

\* String.prototype.trim
RECURSIVE TrimLeft(_)
TrimLeft(s) ==
  IF s # <<>> /\ Head(s) \in WhiteSpace THEN TrimLeft(Tail(s)) ELSE s
RECURSIVE TrimRight(_)
TrimRight(s) ==
  IF s # <<>> /\ s[Len(s)] \in WhiteSpace
  THEN TrimRight(SubSeq(s, 1, Len(s) - 1)) ELSE s
Trim(s) == TrimRight(TrimLeft(s))

\* Array.prototype.map
Map(Op(_), seq) == [i \in 1..Len(seq) |-> Op(seq[i])]

(***************************************************************************)
(* JavaScript values.                                                      *)
(***************************************************************************)
Undefined == [t |-> "undefined"]
Null == [t |-> "null"]
Bool(b) == [t |-> "boolean", b |-> b]
Num(n) == [t |-> "number", n |-> n]
\* the number m / 10^d: an integer is a Num, any other number keeps the
\* mantissa m (not a multiple of 10) and the count d of fraction digits
RECURSIVE Decimal(_, _)
Decimal(m, d) ==
  IF d = 0 THEN Num(m)
  ELSE IF m % 10 = 0 THEN Decimal(m \div 10, d - 1)
  ELSE [t |-> "number", m |-> m, d |-> d]
Infinity(sign) == [t |-> "number", inf |-> sign]
NaN == [t |-> "number", nan |-> TRUE]
Str(s) == [t |-> "string", s |-> s]
Obj(ref) == [t |-> "object", ref |-> ref]
Fn(name) == [t |-> "function", name |-> name]

IsNum(v) == v.t = "number" /\ "n" \in DOMAIN v
IsNaNValue(v) == v.t = "number" /\ "nan" \in DOMAIN v

\* the typeof operator: null is an "object"
TypeOf(v) == IF v.t = "null" THEN "object" ELSE v.t

\* ToBoolean, the test of `if (val)`
Truthy(v) ==
  CASE v.t \in {"undefined", "null"} -> FALSE
    [] v.t = "boolean" -> v.b
    [] v.t = "number" -> ~ IsNaNValue(v) /\ ~ (IsNum(v) /\ v.n = 0)
    [] v.t = "string" -> v.s # <<>>
    [] OTHER -> TRUE

s_true == <<"t", "r", "u", "e">>
s_false == <<"f", "a", "l", "s", "e">>
s_undefined == <<"u", "n", "d", "e", "f", "i", "n", "e", "d">>
s_null == <<"n", "u", "l", "l">>
s_Infinity == <<"I", "n", "f", "i", "n", "i", "t", "y">>
s_NaN == <<"N", "a", "N">>
s_object == <<"o", "b", "j", "e", "c", "t">>
s_number == <<"n", "u", "m", "b", "e", "r">>
s_string == <<"s", "t", "r", "i", "n", "g">>
s_boolean == <<"b", "o", "o", "l", "e", "a", "n">>
s_value == <<"v", "a", "l", "u", "e">>

DigitChar == <<"0", "1", "2", "3", "4", "5", "6", "7", "8", "9">>
DigitValue(c) == (CHOOSE i \in 1..10 : DigitChar[i] = c) - 1

\* the decimal digits of a natural number
RECURSIVE NatToString(_)
NatToString(n) ==
  IF n < 10 THEN <<DigitChar[n + 1]>>
  ELSE NatToString(n \div 10) \o <<DigitChar[(n % 10) + 1]>>

\* the value of a non-empty sequence of decimal digits
RECURSIVE DigitsToNat(_)
DigitsToNat(s) ==
  IF s = <<>> THEN 0
  ELSE 10 * DigitsToNat(SubSeq(s, 1, Len(s) - 1)) + DigitValue(s[Len(s)])

(***************************************************************************)
(* The object graph.  Heap maps a reference to an object: its own          *)
(* properties and the properties it inherits from its prototype.  It       *)
(* holds the application objects and the mappings used as                  *)
(* argument-resolution sources.                                            *)
(***************************************************************************)
s_greet == <<"g", "r", "e", "e", "t">>
s_sum == <<"s", "u", "m">>
s_World == <<"W", "o", "r", "l", "d">>
s_Hello == <<"H", "e", "l", "l", "o", ",", " ">>
s_toString == <<"t", "o", "S", "t", "r", "i", "n", "g">>
s_next == <<"n", "e", "x", "t">>

\* an incremental sequence: next() yields the elements of yields, then
\* reports completion with the value ret
Gen(yields, ret) == [t |-> "object", yields |-> yields, ret |-> ret]
\* a settled deferred value
Promise(v) == [t |-> "object", promise |-> v]

IsRef(v) == v.t = "object" /\ "ref" \in DOMAIN v
IsGen(v) == v.t = "object" /\ "yields" \in DOMAIN v
IsPromise(v) == v.t = "object" /\ "promise" \in DOMAIN v

ObjectPrototype == (s_toString :> Fn("toString"))

Heap ==
  \* the application root
     1 :> [own |-> (<<"a">> :> Obj(2)) @@ (<<"n">> :> Num(5))
                   @@ (<<"u">> :> Undefined) @@ (<<"z">> :> Null)
                   @@ (<<"f">> :> Fn("child")) @@ (<<"s">> :> Fn("stream"))
                   @@ (<<"v">> :> Fn("void")) @@ (<<"w">> :> Fn("later"))
                   @@ (<<"g">> :> Fn("streamVoid")) @@ (<<"o">> :> Fn("nothing"))
                   @@ (<<>> :> Fn("child"))
                   @@ (s_greet :> Fn("greet")) @@ (s_sum :> Fn("sum")),
           proto |-> ObjectPrototype @@ (<<"h">> :> Num(9))]
  \* { b: {}, n: 5, i: <function>, k: <function> }, the value of a
  @@ 2 :> [own |-> (<<"b">> :> Obj(3)) @@ (<<"n">> :> Num(5))
                   @@ (<<"i">> :> Fn("stream")) @@ (<<"k">> :> Fn("sum")),
           proto |-> ObjectPrototype]
  \* {}, the value of a.b
  @@ 3 :> [own |-> <<>>, proto |-> ObjectPrototype]
  \* { c: 3, i: 4 }, what the modifyHandler "swap" puts in place of {}
  @@ 4 :> [own |-> (<<"c">> :> Num(3)) @@ (<<"i">> :> Num(4)),
           proto |-> ObjectPrototype]
  \* { undefined: 1 }, a root with a property named "undefined"
  @@ 5 :> [own |-> (s_undefined :> Num(1)), proto |-> ObjectPrototype]
  \* the mappings { x: 1 }, { x: 2 }, { true: 1, false: 1, y: 0, x: 3 }
  @@ 10 :> [own |-> (<<"x">> :> Num(1)), proto |-> ObjectPrototype]
  @@ 11 :> [own |-> (<<"x">> :> Num(2)), proto |-> ObjectPrototype]
  @@ 12 :> [own |-> (s_true :> Num(1)) @@ (s_false :> Num(1))
                    @@ (<<"y">> :> Num(0)) @@ (<<"x">> :> Num(3))
                    @@ (<<"1">> :> Num(8)) @@ (<<"-", "2">> :> Num(8)),
            proto |-> ObjectPrototype]
  \* { value: 7 }, what the resolver "resolveBox" returns for x
  @@ 20 :> [own |-> (s_value :> Num(7)), proto |-> ObjectPrototype]

\* Object.prototype.hasOwnProperty.call(obj, name) for a heap object
Owns(v, name) == IsRef(v) /\ name \in DOMAIN Heap[v.ref].own

\* the property read v[name] of a value that is neither null nor undefined
Get(v, name) ==
  IF IsRef(v)
  THEN IF name \in DOMAIN Heap[v.ref].own THEN Heap[v.ref].own[name]
       ELSE IF name \in DOMAIN Heap[v.ref].proto THEN Heap[v.ref].proto[name]
       ELSE Undefined
  ELSE IF IsGen(v) /\ name = s_next THEN Fn("next")
  ELSE Undefined

s_objectObject ==
  <<"[", "o", "b", "j", "e", "c", "t", " ", "O", "b", "j", "e", "c", "t", "]">>

\* the digits of m / 10^d, d > 0
FractionToString(m, d) ==
  LET abs == IF m < 0 THEN 0 - m ELSE m
      digits == NatToString(abs)
      padded == [k \in 1..(d + 1 - Len(digits)) |-> "0"] \o digits
      whole == SubSeq(padded, 1, Len(padded) - d)
      fraction == SubSeq(padded, Len(padded) - d + 1, Len(padded))
  IN  (IF m < 0 THEN <<"-">> ELSE <<>>) \o whole \o <<".">> \o fraction

\* ToString, as used by template literals, string concatenation and
\* property keys
ToStringJS(v) ==
  CASE v.t = "undefined" -> s_undefined
    [] v.t = "null" -> s_null
    [] v.t = "boolean" -> IF v.b THEN s_true ELSE s_false
    [] v.t = "string" -> v.s
    [] IsNum(v) -> IF v.n < 0 THEN <<"-">> \o NatToString(0 - v.n)
                   ELSE NatToString(v.n)
    [] IsNaNValue(v) -> s_NaN
    [] v.t = "number" /\ "inf" \in DOMAIN v ->
         IF v.inf < 0 THEN <<"-">> \o s_Infinity ELSE s_Infinity
    [] v.t = "number" -> FractionToString(v.m, v.d)
    [] OTHER -> s_objectObject

(***************************************************************************)
(* src/nsoap.js, lines 1-32: identifierRegex and getArgumentValue.         *)
(***************************************************************************)
\* /^[a-zA-Z_$][a-zA-Z_$0-9]*$/.test(a)
identifierRegex(a) ==
  /\ a # <<>>
  /\ a[1] \in Letters \cup {"_", "$"}
  /\ \A i \in 2..Len(a) : a[i] \in Letters \cup Digits \cup {"_", "$"}

\* ToNumber that loses the sign
ToNumber_unsigned(a) ==
  LET s == Trim(a)
      signed == s # <<>> /\ s[1] \in {"+", "-"}
      body == IF signed THEN Tail(s) ELSE s
      point == IndexOf(body, ".")
      whole == IF point = -1 THEN body ELSE SubSeq(body, 1, point)
      fraction == IF point = -1 THEN <<>> ELSE SubSeq(body, point + 2, Len(body))
  IN  IF s = <<>> THEN Num(0)
      ELSE IF body = s_Infinity THEN Infinity(1)
      ELSE IF /\ whole \o fraction # <<>>
              /\ \A k \in 1..Len(whole) : whole[k] \in Digits
              /\ \A k \in 1..Len(fraction) : fraction[k] \in Digits
      THEN Decimal(DigitsToNat(whole \o fraction), Len(fraction))
      ELSE NaN

\* ToNumber of a string, the conversion behind isNaN(a) and +a.  Covers the
\* empty string, signed decimal literals with or without a fraction and
\* signed Infinity; exponents and radix prefixes do not occur in the tokens
\* of this model.
ToNumber(a) ==
  LET s == Trim(a)
      signed == s # <<>> /\ s[1] \in {"+", "-"}
      sign == IF signed /\ s[1] = "-" THEN -1 ELSE 1
      body == IF signed THEN Tail(s) ELSE s
      point == IndexOf(body, ".")
      whole == IF point = -1 THEN body ELSE SubSeq(body, 1, point)
      fraction == IF point = -1 THEN <<>> ELSE SubSeq(body, point + 2, Len(body))
  IN  IF s = <<>> THEN Num(0)
      ELSE IF body = s_Infinity THEN Infinity(sign)
      ELSE IF /\ whole \o fraction # <<>>
              /\ \A k \in 1..Len(whole) : whole[k] \in Digits
              /\ \A k \in 1..Len(fraction) : fraction[k] \in Digits
      THEN Decimal(sign * DigitsToNat(whole \o fraction), Len(fraction))
      ELSE NaN

isNaN(a) == IsNaNValue(ToNumber(a))

\* hasOwnProperty(obj, prop) of line 81; Object.prototype.hasOwnProperty.call
\* converts null to an object and throws a TypeError
hasOwnPropertyThrows(obj) == TypeOf(obj) = "object" /\ obj.t = "null"
hasOwnProperty(obj, prop) == TypeOf(obj) = "object" /\ Owns(obj, ToStringJS(prop))

\* the resolver functions used as argument-resolution sources
ApplyResolver(name, a) ==
  CASE name = "resolveX" -> IF a = <<"x">> THEN Num(7) ELSE Undefined
    [] name = "resolveBox" -> IF a = <<"x">> THEN Obj(20) ELSE Null
    [] name = "resolveZero" -> IF a = <<"x">> THEN Num(0) ELSE Str(<<>>)
    [] name = "resolveAll" -> Str(<<"q">>)

\* the loop of lines 16-28 with `if (dict[a])` for line 23: a mapping whose
\* value is falsy does not match
RECURSIVE lookup_truthy(_, _, _)
lookup_truthy(dicts, a, i) ==
  IF i > Len(dicts) THEN [arg |-> [value |-> Str(a)], consulted |-> <<>>]
  ELSE LET dict == dicts[i]
           rest == lookup_truthy(dicts, a, i + 1)
           skip == [arg |-> rest.arg, consulted |-> <<i>> \o rest.consulted]
       IN  IF TypeOf(dict) = "function"
           THEN LET val == ApplyResolver(dict.name, a)
                IN  IF Truthy(val) THEN [arg |-> val, consulted |-> <<i>>]
                    ELSE skip
           ELSE IF hasOwnProperty(dict, Str(a)) /\ Truthy(Get(dict, a))
                THEN [arg |-> [value |-> Get(dict, a)], consulted |-> <<i>>]
                ELSE skip

\* the loop of lines 16-28 from the source at position i on: the Argument
\* it returns and the positions of the sources it consulted on the way
RECURSIVE lookup(_, _, _)
lookup(dicts, a, i) ==
  IF i > Len(dicts) THEN [arg |-> [value |-> Str(a)], consulted |-> <<>>]
  ELSE LET dict == dicts[i]
           rest == lookup(dicts, a, i + 1)
           skip == [arg |-> rest.arg, consulted |-> <<i>> \o rest.consulted]
       IN  IF TypeOf(dict) = "function"
           THEN LET val == ApplyResolver(dict.name, a)
                IN  IF Truthy(val) THEN [arg |-> val, consulted |-> <<i>>]
                    ELSE skip
           ELSE IF hasOwnProperty(dict, Str(a))
                THEN [arg |-> [value |-> Get(dict, a)], consulted |-> <<i>>]
                ELSE skip

s_notValid ==
  <<" ", "i", "s", " ", "n", "o", "t", " ", "a", " ", "v", "a", "l", "i", "d",
    " ", "i", "d", "e", "n", "t", "i", "f", "i", "e", "r", ".">>

\* getArgumentValue with the sources asked before the literals: a valid
\* identifier, true and false included, is looked up first
resolveToken_lookupFirst(dicts, a) ==
  IF isNaN(a) /\ identifierRegex(a)
  THEN lookup(dicts, a, 1)
  ELSE IF a = s_true \/ a = s_false
  THEN [arg |-> [value |-> Bool(a = s_true)], consulted |-> <<>>]
  ELSE IF isNaN(a)
  THEN [arg |-> [error |-> a \o s_notValid], consulted |-> <<>>]
  ELSE [arg |-> [value |-> ToNumber(a)], consulted |-> <<>>]

\* getArgumentValue(dicts)(a), with the sources it consulted
resolveToken(dicts, a) ==
  IF a = s_true \/ a = s_false
  THEN [arg |-> [value |-> Bool(a = s_true)], consulted |-> <<>>]
  ELSE IF isNaN(a)
  THEN IF identifierRegex(a)
       THEN lookup(dicts, a, 1)
       ELSE [arg |-> [error |-> a \o s_notValid], consulted |-> <<>>]
  ELSE [arg |-> [value |-> ToNumber(a)], consulted |-> <<>>]

getArgumentValue(dicts, a) == resolveToken(dicts, a).arg

\* a => a.value || a.error: an Argument error is passed on as its message
ArgValue_passesError(a) ==
  IF "t" \in DOMAIN a THEN Get(a, s_value)
  ELSE IF "value" \in DOMAIN a THEN a.value
  ELSE Str(a.error)

\* a => a.value of lines 129-130: an Argument made by getArgumentValue has
\* a value or an error; what a resolver returned is read like any value
ArgValue(a) ==
  IF "t" \in DOMAIN a THEN Get(a, s_value)
  ELSE IF "value" \in DOMAIN a THEN a.value
  ELSE Undefined

(***************************************************************************)
(* src/nsoap.js, lines 39-59: analyzePath.                                 *)
(***************************************************************************)
HexDigits == Digits \cup {"a", "b", "c", "d", "e", "f", "A", "B", "C", "D", "E", "F"}

\* the escapes decodeURI decodes that occur in this model
DecodedChar ==
  (<<"2", "0">> :> " ") @@ (<<"2", "8">> :> "(") @@ (<<"2", "9">> :> ")")
  @@ (<<"2", "E">> :> ".")

\* decodeURI throws a URIError on a % that two hex digits do not follow
RECURSIVE decodeURIThrows(_)
decodeURIThrows(s) ==
  IF s = <<>> THEN FALSE
  ELSE IF Head(s) = "%"
  THEN IF Len(s) >= 3 /\ s[2] \in HexDigits /\ s[3] \in HexDigits
       THEN decodeURIThrows(SubSeq(s, 4, Len(s)))
       ELSE TRUE
  ELSE decodeURIThrows(Tail(s))

RECURSIVE decodeURI(_)
decodeURI(s) ==
  IF s = <<>> THEN <<>>
  ELSE IF Head(s) = "%"
  THEN <<DecodedChar[<<s[2], s[3]>>]>> \o decodeURI(SubSeq(s, 4, Len(s)))
  ELSE <<Head(s)>> \o decodeURI(Tail(s))

\* lines 42: path.indexOf(".") ? path.split(".") : [path]; an index of 0 is
\* falsy, -1 is not
pathParts(path) == IF IndexOf(path, ".") # 0 THEN Split(path, ".") ELSE <<path>>

\* lines 50-53: the trimmed tokens of the argument list of a part
argTokens(part) ==
  LET openingBracket == IndexOf(part, "(")
      closingBracket == IndexOf(part, ")")
      argsString == Substring(part, openingBracket + 1, closingBracket)
  IN  Map(Trim, Split(argsString, ","))

\* lines 43-58: the step of one part
analyzePart(part, dicts) ==
  LET openingBracket == IndexOf(part, "(")
      isFunction == openingBracket > -1
  IN  IF isFunction
      THEN LET identifier == Substring(part, 0, openingBracket)
               resolve(a) == getArgumentValue(dicts, a)
           IN  [type |-> "function", identifier |-> identifier,
                args |-> Map(resolve, argTokens(part))]
      ELSE [type |-> "object", identifier |-> part]

analyzePath(encodedPath, dicts) ==
  LET path == decodeURI(encodedPath)
      analyze(part) == analyzePart(part, dicts)
  IN  Map(analyze, pathParts(path))

(***************************************************************************)
(* The application: what the functions of the object graph return.  They   *)
(* are free of side effects.  n is the number of elements the sequence     *)
(* made by a streaming function yields this time.                          *)
(***************************************************************************)
Elements == <<Num(10), Promise(Num(20)), Num(30), Num(40)>>

\* the sum of integer arguments, NaN with any other argument
RECURSIVE Sum(_)
Sum(xs) ==
  IF xs = <<>> THEN Num(0)
  ELSE LET rest == Sum(Tail(xs))
       IN  IF IsNum(Head(xs)) /\ IsNum(rest) THEN Num(Head(xs).n + rest.n)
           ELSE NaN

Apply(fn, args, n) ==
  CASE fn.name = "greet" ->
         Str(s_Hello \o ToStringJS(IF args = <<>> THEN Undefined ELSE args[1]))
    [] fn.name = "sum" -> Sum(args)
    [] fn.name = "child" -> Obj(2)
    [] fn.name = "void" -> Undefined
    [] fn.name = "nothing" -> Null
    [] fn.name = "later" -> Promise(Obj(2))
    [] fn.name = "stream" -> Gen(SubSeq(Elements, 1, n), Obj(2))
    [] fn.name = "streamLater" -> Gen(SubSeq(Elements, 1, n), Promise(Num(7)))
    [] fn.name = "streamVoid" -> Gen(SubSeq(Elements, 1, n), Undefined)
    [] fn.name = "makeApp" -> Obj(1)
    [] fn.name = "makeNull" -> Null
    [] fn.name = "toString" -> Str(s_objectObject)

\* await v
Await(v) == IF IsPromise(v) THEN v.promise ELSE v

\* options.modifyHandler(current, identifier)
ModifyHandlers == {"none", "same", "swap"}
modifyHandler(h, current, identifier) ==
  IF h = "swap" /\ current = Obj(3) THEN Obj(4) ELSE current

(***************************************************************************)
(* src/nsoap.js, lines 61-66 and 77-79.                                    *)
(***************************************************************************)
RoutingError(message, type) ==
  [t |-> "object", message |-> message, type |-> type]
IsRoutingError(v) == v.t = "object" /\ "type" \in DOMAIN v

s_notFound ==
  <<"T", "h", "e", " ", "r", "e", "q", "u", "e", "s", "t", "e", "d", " ",
    "p", "a", "t", "h", " ", "w", "a", "s", " ", "n", "o", "t", " ",
    "f", "o", "u", "n", "d", ".">>
s_isNotAFunction ==
  <<" ", "i", "s", " ", "n", "o", "t", " ", "a", " ",
    "f", "u", "n", "c", "t", "i", "o", "n", ".", " ", "W", "a", "s", " ">>

\* the name typeof gives, as a string
TypeName(v) ==
  CASE TypeOf(v) = "object" -> s_object
    [] TypeOf(v) = "number" -> s_number
    [] TypeOf(v) = "string" -> s_string
    [] TypeOf(v) = "boolean" -> s_boolean
    [] TypeOf(v) = "undefined" -> s_undefined
    [] OTHER -> <<"f", "u", "n", "c", "t", "i", "o", "n">>

\* __isIterable(gen): reading gen.next of null or undefined throws a
\* TypeError
isIterableThrows(gen) == gen.t \in {"undefined", "null"}
__isIterable(gen) ==
  Truthy(Get(gen, s_next)) /\ TypeOf(Get(gen, s_next)) = "function"

(***************************************************************************)
(* src/nsoap.js, lines 85-181: route.                                      *)
(*                                                                         *)
(* The arguments of the call are _app, expression, dicts and options; the  *)
(* other variables are the locals of the call.  pc is the position of the  *)
(* async function:                                                         *)
(*   "start"   before line 108                                             *)
(*   "loop"    at the head of the for loop, about to process parts[i]      *)
(*   "settle"  suspended at the await of line 126 or 148, or at the call   *)
(*             of iterateToEnd of line 176                                 *)
(*   "drain"   suspended at the await of gen.next() of line 95             *)
(*   "final"   at line 165                                                 *)
(*   "done"    settled                                                     *)
(* trace records, in order, what the call did to the outside: the calls of *)
(* modifyHandler, the member reads, the invocations, the pulls and the     *)
(* calls of onNextValue.  resolved records, for every part, the tokens of  *)
(* its argument list with the Argument and the consulted sources of each.  *)
(* calls holds the calls of route that are in progress together, each with *)
(* its arguments, its parts and its own locals; it is empty where one call *)
(* is followed through the variables above.                                *)
(***************************************************************************)
VARIABLES _app, expression, dicts, options,
          pc, parts, resolved, i, obj, error, current,
          resultOrGenerator, pulled, site, trace, outcome, finalResult,
          calls

args_ == <<_app, expression, dicts, options>>
vars == <<_app, expression, dicts, options,
          pc, parts, resolved, i, obj, error, current,
          resultOrGenerator, pulled, site, trace, outcome, finalResult,
          calls>>

\* the locals of the call as one record
Locals ==
  [pc |-> pc, i |-> i, obj |-> obj, error |-> error, current |-> current,
   resultOrGenerator |-> resultOrGenerator, pulled |-> pulled, site |-> site,
   trace |-> trace, outcome |-> outcome, finalResult |-> finalResult]

Assign(c) ==
  /\ pc' = c.pc
  /\ i' = c.i
  /\ obj' = c.obj
  /\ error' = c.error
  /\ current' = c.current
  /\ resultOrGenerator' = c.resultOrGenerator
  /\ pulled' = c.pulled
  /\ site' = c.site
  /\ trace' = c.trace
  /\ outcome' = c.outcome
  /\ finalResult' = c.finalResult

Thrown(name) == [t |-> "thrown", name |-> name]

\* an exception leaves the async function: the promise of route rejects
reject(c, name) ==
  [c EXCEPT !.pc = "done", !.outcome = "rejected", !.finalResult = Thrown(name)]

\* line 180
return(c, v) ==
  [c EXCEPT !.pc = "done", !.outcome = "resolved", !.finalResult = Await(v)]

\* lines 128-130 with the two branches of options.prependArgs exchanged
functionArgs_swapped(part, opts) ==
  IF opts.prependArgs
  THEN Map(ArgValue, part.args) \o opts.args
  ELSE opts.args \o Map(ArgValue, part.args)

\* lines 109 and 129-130: the arguments of an invocation
additionalArgs(opts) == opts.args
functionArgs(part, opts) ==
  IF opts.prependArgs
  THEN additionalArgs(opts) \o Map(ArgValue, part.args)
  ELSE Map(ArgValue, part.args) \o additionalArgs(opts)

\* lines 119-121 with the value modifyHandler returns dropped
modified_discarded(c, opts, identifier, at) ==
  IF opts.modifyHandler # "none"
  THEN [c EXCEPT
          !.trace = Append(c.trace,
                      [k |-> "modify", at |-> at, current |-> c.current,
                       identifier |-> identifier])]
  ELSE c

\* lines 119-121
modified(c, opts, identifier, at) ==
  IF opts.modifyHandler # "none"
  THEN [c EXCEPT
          !.current = modifyHandler(opts.modifyHandler, c.current, identifier),
          !.trace = Append(c.trace,
                      [k |-> "modify", at |-> at, current |-> c.current,
                       identifier |-> identifier])]
  ELSE c

\* the read of current[identifier] and the invocation of what it holds
read(c, name, at) ==
  [c EXCEPT !.trace = Append(c.trace,
       [k |-> "read", at |-> at, of |-> c.current, name |-> name,
        own |-> Owns(c.current, name)])]
invoke(c, fn, args, n, at) ==
  [c EXCEPT !.pc = "settle",
            !.resultOrGenerator = Apply(fn, args, n),
            !.trace = Append(c.trace,
                        [k |-> "call", at |-> at, fn |-> fn.name,
                         this |-> c.current, args |-> args])]

\* lines 116-163: one pass of the loop body, up to its await or its break
loopStep(c0, ps, opts, n) ==
  LET part == ps[c0.i]
      c1 == [c0 EXCEPT !.site = "loop",
               !.obj = IF Truthy(c0.obj)
                       THEN Str(c0.obj.s \o <<".">> \o part.identifier)
                       ELSE Str(part.identifier)]
      c == modified(c1, opts, part.identifier, c0.i)
      notFound == [c EXCEPT !.pc = "final",
                     !.error = RoutingError(s_notFound, "NOT_FOUND")]
  IN  IF TypeOf(c1.current) = "undefined" THEN [c1 EXCEPT !.pc = "final"]
      ELSE IF hasOwnPropertyThrows(c.current) THEN reject(c, "TypeError")
      ELSE IF hasOwnProperty(c.current, Str(part.identifier))
      THEN LET r == read(c, part.identifier, c0.i)
               member == Get(c.current, part.identifier)
           IN  IF part.type = "function"
               THEN IF TypeOf(member) = "function"
                    THEN invoke(r, member, functionArgs(part, opts), n, c0.i)
                    ELSE IF TypeOf(member) = "undefined"
                    THEN [r EXCEPT !.pc = "final",
                            !.error = RoutingError(s_notFound, "NOT_FOUND")]
                    ELSE [r EXCEPT !.pc = "final",
                            !.error = RoutingError(
                               c.obj.s \o s_isNotAFunction
                                 \o TypeName(member) \o <<".">>,
                               "NOT_A_FUNCTION")]
               ELSE IF TypeOf(member) = "function"
                    THEN invoke(r, member, additionalArgs(opts), n, c0.i)
                    ELSE [r EXCEPT !.pc = "settle", !.resultOrGenerator = member]
      ELSE notFound

\* what iterateToEnd returned is awaited and becomes current (lines 132 and
\* 151) or the final result (lines 176 and 180)
iterated(c, ps, v) ==
  IF c.site = "loop"
  THEN [c EXCEPT !.current = Await(v), !.i = c.i + 1,
                 !.pc = IF c.i + 1 > Len(ps) THEN "final" ELSE "loop"]
  ELSE return(c, v)

\* the await of lines 126 and 148 resumes (line 172 has no await), then
\* iterateToEnd runs up to its first await or its return: lines 91-93, 104
settle(c0, ps) ==
  LET c == IF c0.site = "loop"
           THEN [c0 EXCEPT !.resultOrGenerator = Await(c0.resultOrGenerator)]
           ELSE c0
  IN  IF isIterableThrows(c.resultOrGenerator) THEN reject(c, "TypeError")
      ELSE IF __isIterable(c.resultOrGenerator)
      THEN [c EXCEPT !.pc = "drain", !.pulled = 0]
      ELSE iterated(c, ps, c.resultOrGenerator)

\* pull without the !nextVal.done of line 96: the value of the completion is
\* handed to onNextValue too
pull_emitsDone(c, ps, opts) ==
  LET gen == c.resultOrGenerator
      done == c.pulled >= Len(gen.yields)
      at == IF c.site = "loop" THEN c.i ELSE 0
      value == IF done THEN gen.ret ELSE gen.yields[c.pulled + 1]
      p == [c EXCEPT !.trace =
              IF opts.onNextValue
              THEN c.trace \o <<[k |-> "pull", at |-> at, done |-> done],
                                [k |-> "emit", at |-> at, value |-> Await(value)]>>
              ELSE Append(c.trace, [k |-> "pull", at |-> at, done |-> done])]
  IN  IF done THEN iterated(p, ps, gen.ret)
      ELSE [p EXCEPT !.pulled = c.pulled + 1]

\* lines 94-102 leaving the while loop at the first pull, done or not
pull_leavesEarly(c, ps, opts) ==
  LET gen == c.resultOrGenerator
      done == c.pulled >= Len(gen.yields)
      at == IF c.site = "loop" THEN c.i ELSE 0
      p == [c EXCEPT !.trace = Append(c.trace,
                                 [k |-> "pull", at |-> at, done |-> done])]
  IN  iterated(p, ps, IF done THEN gen.ret ELSE gen.yields[c.pulled + 1])

\* lines 94-102: one pass of the while loop, gen.next() having settled
pull(c, ps, opts) ==
  LET gen == c.resultOrGenerator
      done == c.pulled >= Len(gen.yields)
      at == IF c.site = "loop" THEN c.i ELSE 0
      p == [c EXCEPT !.trace = Append(c.trace,
                                 [k |-> "pull", at |-> at, done |-> done])]
  IN  IF done THEN iterated(p, ps, gen.ret)
      ELSE [p EXCEPT !.pulled = c.pulled + 1,
              !.trace = IF opts.onNextValue
                        THEN Append(p.trace,
                               [k |-> "emit", at |-> at,
                                value |-> Await(gen.yields[c.pulled + 1])])
                        ELSE p.trace]

\* lines 168-177: the index step
indexStep(c0, opts, n) ==
  LET name == ToStringJS(opts.index)
      c == modified([c0 EXCEPT !.site = "index"], opts, name, 0)
      r == read(c, name, 0)
      member == Get(c.current, name)
  IN  IF c.current.t \in {"undefined", "null"} THEN reject(c, "TypeError")
      ELSE IF TypeOf(member) = "function"
      THEN invoke(r, member, additionalArgs(opts), n, 0)
      ELSE [r EXCEPT !.pc = "settle", !.resultOrGenerator = member]

\* lines 165-180 with the index tested before the error: a walk that failed
\* falls back to the index of the value it stopped at
final_indexFirst(c0, opts, n) ==
  IF hasOwnPropertyThrows(c0.current) THEN reject(c0, "TypeError")
  ELSE IF hasOwnProperty(c0.current, opts.index) THEN indexStep(c0, opts, n)
  ELSE IF Truthy(c0.error) THEN return(c0, c0.error)
  ELSE return(c0, c0.current)

\* lines 167-178 without the test of error of lines 165-166
final_ignoresError(c0, opts, n) ==
  IF hasOwnPropertyThrows(c0.current) THEN reject(c0, "TypeError")
  ELSE IF hasOwnProperty(c0.current, opts.index) THEN indexStep(c0, opts, n)
  ELSE return(c0, c0.current)

\* lines 165-180
final(c0, opts, n) ==
  IF Truthy(c0.error) THEN return(c0, c0.error)
  ELSE IF hasOwnPropertyThrows(c0.current) THEN reject(c0, "TypeError")
  ELSE IF hasOwnProperty(c0.current, opts.index) THEN indexStep(c0, opts, n)
  ELSE return(c0, c0.current)

\* for every part, the tokens of its argument list as they were resolved
resolutions(encodedPath, ds) ==
  LET segs == pathParts(decodeURI(encodedPath))
      one(a) == [token |-> a, arg |-> resolveToken(ds, a).arg,
                 consulted |-> resolveToken(ds, a).consulted]
  IN  [k \in 1..Len(segs) |->
         IF IndexOf(segs[k], "(") > -1 THEN Map(one, argTokens(segs[k]))
         ELSE <<>>]

(***************************************************************************)
(* The calls the model makes.                                              *)
(***************************************************************************)
ExtraArgPool == <<Num(100), Str(<<"k">>), Num(300), Num(400)>>

Options ==
  [args : {SubSeq(ExtraArgPool, 1, k) : k \in 0..MaxExtraArgs},
   prependArgs : BOOLEAN,
   modifyHandler : ModifyHandlers,
   index : {Undefined, Str(<<"i">>)},
   onNextValue : BOOLEAN]

Call1(f, a) == f \o <<"(">> \o a \o <<")">>
Call2(f, a, b) == f \o <<"(">> \o a \o <<",">> \o b \o <<")">>
Dot(a, b) == a \o <<".">> \o b

\* expressions routed against the application root
Expressions ==
  { <<>>, <<"a">>, <<"a", ".", "b">>, <<"a", ".", "b", ".", "c">>,
    <<"a", ".", "b", ".", "c", ".", "d">>,
    <<"a", ".", "b", ".", "c", "(", "1", ")">>,
    <<"a", ".", "b", ".", "i">>,
    <<"q">>, <<"q", "(", "1", ")">>, <<"q", ".", "a">>,
    <<"a", ".", "q", ".", "b">>,
    <<"n">>, <<"n", "(", "1", ")">>, <<"a", ".", "n", "(", "x", ")">>,
    <<"n", ".", "a">>,
    <<"u">>, <<"u", "(", "1", ")">>, <<"u", ".", "a">>,
    <<"z">>, <<"z", "(", "1", ")">>, <<"z", ".", "a">>,
    <<"h">>, <<"h", "(", "1", ")">>, s_toString, Call1(s_toString, <<"1">>),
    Dot(<<"a">>, s_toString),
    <<"f">>, <<"f", "(", "x", ")">>, <<"f", ".", "b">>,
    <<"f", "(", "x", ")", ".", "n", "(", "2", ")">>,
    <<"f", "(", "x", ")", ".", "k", "(", "1", ",", "2", ")">>,
    <<"a", ".", "k">>, <<"a", ".", "i">>,
    <<"s">>, <<"s", "(", "1", ")">>, <<"s", ".", "b">>,
    <<"s", "(", "x", ")", ".", "q">>,
    <<"g">>, <<"g", ".", "a">>, <<"g", "(", "1", ")", ".", "a">>,
    <<"v">>, <<"v", "(", "1", ")">>, <<"v", ".", "a">>,
    <<"o">>, <<"o", ".", "a">>,
    <<"w">>, <<"w", ".", "b">>, <<"w", "(", "1", ")", ".", "n", "(", "1", ")">>,
    <<"(", "1", ")", ".", "n", "(", "1", ")">>, <<"(", "1", ")", ".", "b">>,
    <<".", "a">>, <<"a", ".", ".", "b">>,
    Call1(s_greet, <<"\"">> \o s_World \o <<"\"">>), Call1(s_greet, s_World),
    Call1(s_greet, <<"x">>), s_greet,
    Call1(s_sum, <<"1", ",", "2", ",", "3">>),
    Call1(s_sum, <<"x", ",", " ", "2", " ">>), s_sum,
    Call1(s_sum, <<"t", "r", "u", "e">>),
    <<"a", "%", "2", "E", "b">>, <<"a", "%">>, <<"f", "(", ")">> }

\* roots other than the application object, and what is routed against them
OtherRoots ==
  {Null, Undefined, Num(5), Str(<<"a">>), Fn("makeApp"), Fn("makeNull"),
   Obj(2), Obj(3), Obj(4), Obj(5)}
OtherExpressions ==
  { <<>>, <<"a">>, <<"a", ".", "b">>, <<"b", "(", "1", ")">>, <<"c">> }

RouteDicts == { <<>>, <<Obj(10), Obj(11)>>, <<Fn("resolveX")>> }

Init ==
  /\ \/ /\ _app = Obj(1)
        /\ expression \in Expressions
        /\ dicts \in RouteDicts
     \/ /\ _app \in OtherRoots
        /\ expression \in OtherExpressions
        /\ dicts = <<>>
  /\ options \in Options
  /\ pc = "start"
  /\ parts = <<>>
  /\ resolved = <<>>
  /\ i = 1
  /\ obj = Undefined
  /\ error = Undefined
  /\ current = Undefined
  /\ resultOrGenerator = Undefined
  /\ pulled = 0
  /\ site = "loop"
  /\ trace = <<>>
  /\ outcome = "pending"
  /\ finalResult = Undefined
  /\ calls = <<>>

\* lines 108-114
Start ==
  /\ pc = "start"
  /\ IF expression # <<>> /\ decodeURIThrows(expression)
     THEN /\ Assign(reject(Locals, "URIError"))
          /\ UNCHANGED <<parts, resolved>>
     ELSE LET ps == IF expression # <<>>
                    THEN analyzePath(expression, dicts) ELSE <<>>
              app == IF TypeOf(_app) = "function"
                     THEN Apply(_app, <<>>, 0) ELSE _app
          IN  /\ parts' = ps
              /\ resolved' = IF expression # <<>>
                             THEN resolutions(expression, dicts) ELSE <<>>
              /\ Assign([Locals EXCEPT !.current = app,
                           !.pc = IF Len(ps) = 0 THEN "final" ELSE "loop"])
  /\ UNCHANGED <<args_, calls>>

\* lines 116-163
LoopStep ==
  /\ pc = "loop"
  /\ \E n \in 0..MaxYield : Assign(loopStep(Locals, parts, options, n))
  /\ UNCHANGED <<args_, parts, resolved, calls>>

\* lines 126, 132, 148, 151, 176 and 91-93, 104
Settle ==
  /\ pc = "settle"
  /\ Assign(settle(Locals, parts))
  /\ UNCHANGED <<args_, parts, resolved, calls>>

\* lines 94-102
Pull ==
  /\ pc = "drain"
  /\ Assign(pull(Locals, parts, options))
  /\ UNCHANGED <<args_, parts, resolved, calls>>

\* lines 165-180
Final ==
  /\ pc = "final"
  /\ \E n \in 0..MaxYield : Assign(final(Locals, options, n))
  /\ UNCHANGED <<args_, parts, resolved, calls>>

Next == Start \/ LoopStep \/ Settle \/ Pull \/ Final

Spec == Init /\ [][Next]_vars

(***************************************************************************)
(* The analyzer alone: analyzePath applied to a path and a list of         *)
(* sources.                                                                *)
(***************************************************************************)
Sources ==
  {Obj(10), Obj(11), Obj(12), Fn("resolveX"), Fn("resolveZero"),
   Fn("resolveBox")}

RECURSIVE SeqsUpTo(_, _)
SeqsUpTo(S, n) ==
  IF n = 0 THEN {<<>>}
  ELSE LET shorter == SeqsUpTo(S, n - 1)
       IN  shorter \cup {Append(q, x) : q \in shorter, x \in S}

DictLists == SeqsUpTo(Sources, MaxDicts) \cup {<<Fn("resolveAll")>>}

Tokens ==
  { s_true, s_false, <<"x">>, <<"y">>, s_World, <<"$", "a">>, <<"_">>,
    <<"x", "1">>, s_Infinity, s_NaN,
    <<"1">>, <<"1", "2">>, <<"-", "2">>, <<"+", "7">>, <<"0">>,
    <<"0", "0", "7">>, <<" ", "3", " ">>, <<" ", "x">>, <<>>, <<" ">>,
    <<"1", "x">>, <<"-">>, <<"a", "-", "b">>, <<"\"", "x", "\"">>,
    <<"x", " ", "y">>, <<"-", "x">> }

Paths ==
  {Call1(<<"f">>, a) : a \in Tokens}
  \cup {Call2(<<"f">>, a, <<"x">>) : a \in Tokens}
  \cup {Dot(<<"a">>, Call2(<<"g">>, <<"y">>, a)) : a \in Tokens}
  \cup { <<>>, <<"a">>, <<"a", ".", "b">>, <<".", "a">>, <<"a", ".">>,
         <<"a", ".", ".", "b">>, <<".">>,
         <<"f", "(", "1", ".", "5", ")">>, <<"f", "(", "x">>,
         <<".", "f", "(", "1", ".", "5", ")">>,
         <<".", "f", "(", "-", "2", ".", "5", "0", ",", "x", ")">>,
         <<".", "f", "(", "1", ".", "5", ".", "2", ",", "0", ".", "0", ")">>,
         <<"f", ")", "x", "(">>, <<"f", "(", "1", ")", "(", "2", ")">>,
         <<"f", "(", ")">>, <<"f", "(", ",", ")">>,
         <<"f", "(", "x", ")", ".", "g", "(", "x", ")">>,
         <<"a", "%", "2", "0", "b">>, <<"f", "%", "2", "8", "x", "%", "2", "9">>,
         <<"a", "%", "2", "E", "b">>, <<"%">>, <<"a", "%", "2">>,
         <<"a", "%", "z", "z">> }

AnalyzeInit ==
  /\ expression \in Paths
  /\ dicts \in DictLists
  /\ _app = Undefined
  /\ options \in {o \in Options : o.args = <<>> /\ ~ o.prependArgs
                    /\ o.modifyHandler = "none" /\ o.index = Undefined
                    /\ ~ o.onNextValue}
  /\ pc = "analyze"
  /\ parts = <<>>
  /\ resolved = <<>>
  /\ i = 1
  /\ obj = Undefined
  /\ error = Undefined
  /\ current = Undefined
  /\ resultOrGenerator = Undefined
  /\ pulled = 0
  /\ site = "loop"
  /\ trace = <<>>
  /\ outcome = "pending"
  /\ finalResult = Undefined
  /\ calls = <<>>

\* analyzePath(expression, dicts) returns
Analyze ==
  /\ pc = "analyze"
  /\ ~ decodeURIThrows(expression)
  /\ parts' = analyzePath(expression, dicts)
  /\ resolved' = resolutions(expression, dicts)
  /\ pc' = "analyzed"
  /\ UNCHANGED <<args_, calls, i, obj, error, current, resultOrGenerator, pulled,
                 site, trace, outcome, finalResult>>

\* analyzePath(expression, dicts) throws the URIError of decodeURI
AnalyzeThrows ==
  /\ pc = "analyze"
  /\ decodeURIThrows(expression)
  /\ pc' = "threw"
  /\ UNCHANGED <<args_, calls, parts, resolved, i, obj, error, current,
                 resultOrGenerator, pulled, site, trace, outcome, finalResult>>

AnalyzeNext == Analyze \/ AnalyzeThrows

AnalyzeSpec == AnalyzeInit /\ [][AnalyzeNext]_vars

(***************************************************************************)
(* Two calls of route in progress together on the application root.  Every *)
(* call has the locals of lines 112-114 and the closure of lines 91-106 to *)
(* itself; a step of the whole is one call running from a suspension point *)
(* to its next one.  n is the number of elements the sequences of the      *)
(* application yield to the call.                                          *)
(***************************************************************************)
InitialLocals ==
  [pc |-> "start", i |-> 1, obj |-> Undefined, error |-> Undefined,
   current |-> Undefined, resultOrGenerator |-> Undefined, pulled |-> 0,
   site |-> "loop", trace |-> <<>>, outcome |-> "pending",
   finalResult |-> Undefined]

\* lines 108-114 for a call of calls
started(call) ==
  IF call.expression # <<>> /\ decodeURIThrows(call.expression)
  THEN [call EXCEPT !.locals = reject(call.locals, "URIError")]
  ELSE LET ps == IF call.expression # <<>>
                 THEN analyzePath(call.expression, call.dicts) ELSE <<>>
           app == IF TypeOf(call.app) = "function"
                  THEN Apply(call.app, <<>>, 0) ELSE call.app
       IN  [call EXCEPT !.parts = ps,
                        !.locals.current = app,
                        !.locals.pc = IF Len(ps) = 0 THEN "final" ELSE "loop"]

\* a call runs from where it is suspended to its next suspension point
resumed(call) ==
  LET c == call.locals
  IN  CASE c.pc = "start" -> started(call)
        [] c.pc = "loop" ->
             [call EXCEPT !.locals = loopStep(c, call.parts, call.options, call.n)]
        [] c.pc = "settle" -> [call EXCEPT !.locals = settle(c, call.parts)]
        [] c.pc = "drain" ->
             [call EXCEPT !.locals = pull(c, call.parts, call.options)]
        [] c.pc = "final" ->
             [call EXCEPT !.locals = final(c, call.options, call.n)]

ConcurrentExpressions ==
  { <<"a", ".", "b">>, <<"s", ".", "b">>, <<"a", ".", "n", "(", "x", ")">>,
    <<"f", "(", "x", ")", ".", "q">>, <<"a">> }

ConcurrentCalls ==
  [app : {Obj(1)},
   expression : ConcurrentExpressions,
   dicts : {<<Obj(10)>>},
   options : {o \in Options : o.args = <<>> /\ ~ o.prependArgs
                /\ o.modifyHandler = "none" /\ o.onNextValue},
   n : 0..MaxYield,
   parts : {<<>>},
   locals : {InitialLocals}]

ConcurrentInit ==
  /\ calls \in [1..2 -> ConcurrentCalls]
  /\ _app = Obj(1)
  /\ expression = <<>>
  /\ dicts = <<>>
  /\ options \in {o \in Options : o.args = <<>> /\ ~ o.prependArgs
                    /\ o.modifyHandler = "none" /\ o.index = Undefined
                    /\ ~ o.onNextValue}
  /\ pc = "calls"
  /\ parts = <<>>
  /\ resolved = <<>>
  /\ i = 1
  /\ obj = Undefined
  /\ error = Undefined
  /\ current = Undefined
  /\ resultOrGenerator = Undefined
  /\ pulled = 0
  /\ site = "loop"
  /\ trace = <<>>
  /\ outcome = "pending"
  /\ finalResult = Undefined

\* lines 112-114 declared outside of route: one obj for all the calls
Resume_sharedObj(k) ==
  /\ calls[k].locals.pc # "done"
  /\ calls' = [j \in DOMAIN calls |->
                 IF j = k THEN resumed(calls[k])
                 ELSE [calls[j] EXCEPT
                         !.locals.obj = resumed(calls[k]).locals.obj]]
  /\ UNCHANGED <<args_, pc, parts, resolved, i, obj, error, current,
                 resultOrGenerator, pulled, site, trace, outcome, finalResult>>

\* the call k is resumed; the other call stays where it is suspended
Resume(k) ==
  /\ calls[k].locals.pc # "done"
  /\ calls' = [calls EXCEPT ![k] = resumed(calls[k])]
  /\ UNCHANGED <<args_, pc, parts, resolved, i, obj, error, current,
                 resultOrGenerator, pulled, site, trace, outcome, finalResult>>

ConcurrentNext == \E k \in DOMAIN calls : Resume(k)

ConcurrentSpec == ConcurrentInit /\ [][ConcurrentNext]_vars

(***************************************************************************)
(* Properties of route.                                                    *)
(***************************************************************************)
IsNotFound(v) == IsRoutingError(v) /\ v.type = "NOT_FOUND"

\* the values onNextValue was called with at the step at, in order
Emitted(tr, at) ==
  LET isEmit(e) == e.k = "emit" /\ e.at = at
      value(e) == e.value
  IN  Map(value, SelectSeq(tr, isEmit))

\* the entries of a kind in a trace
Entries(tr, kind) == LET is(e) == e.k = kind IN SelectSeq(tr, is)

\* C1: for every root value and every decodable expression, the application
\* members not failing, route settles with a resolved value or a
\* RoutingError: it never rejects.
C1_NeverRejects ==
  outcome = "rejected" => finalResult = Thrown("URIError")

C2_StepNotOwned ==
  /\ pc = "loop"
  /\ TypeOf(current) # "undefined"
  /\ ~ Owns(modified(Locals, options, parts[i].identifier, i).current,
            parts[i].identifier)
\* C2: at every step of the walk, if the current value (after
\* modifyHandler) does not own the step's identifier, the walk stops with a
\* NOT_FOUND RoutingError; an inherited member is never read or invoked.
C2_NotOwnedIsNotFound ==
  /\ [](\A k \in 1..Len(trace) : trace[k].k = "read" => trace[k].own)
  /\ [](pc = "done" /\ IsRoutingError(error) => finalResult = error)
  /\ [][C2_StepNotOwned => pc' = "final" /\ IsNotFound(error')]_vars

\* the identifiers of the first k parts, joined by dots
RECURSIVE DotJoined(_, _)
DotJoined(ps, k) ==
  IF k = 0 THEN <<>>
  ELSE IF k = 1 THEN ps[1].identifier
  ELSE DotJoined(ps, k - 1) \o <<".">> \o ps[k].identifier

C3_FunctionStep ==
  /\ pc = "loop"
  /\ TypeOf(current) # "undefined"
  /\ parts[i].type = "function"
  /\ Owns(modified(Locals, options, parts[i].identifier, i).current,
          parts[i].identifier)
C3_Member ==
  Get(modified(Locals, options, parts[i].identifier, i).current,
      parts[i].identifier)
\* C3: a function step naming an own member that is defined but not
\* callable stops the walk with a NOT_A_FUNCTION RoutingError whose message
\* is "<path> is not a function. Was <type>.", <path> being the dot-joined
\* identifiers of the steps up to this one; an own member that is undefined
\* gives NOT_FOUND.
C3_NotAFunctionMessage ==
  [][C3_FunctionStep =>
       CASE TypeOf(C3_Member) = "function" -> pc' = "settle"
         [] TypeOf(C3_Member) = "undefined" ->
              pc' = "final" /\ IsNotFound(error')
         [] OTHER ->
              /\ pc' = "final"
              /\ error' = RoutingError(
                            DotJoined(parts, i) \o s_isNotAFunction
                              \o TypeName(C3_Member) \o <<".">>,
                            "NOT_A_FUNCTION")]_vars

C4_At == IF site = "loop" THEN i ELSE 0
C4_Awaited(k) == [j \in 1..k |-> Await(resultOrGenerator.yields[j])]
\* C4: a step whose result is an incremental sequence yielding e1..en and
\* completing with v calls onNextValue exactly n times, with the awaited
\* e1..en in order and never with v, and the walk goes on with the awaited
\* v as current (as the final result, at the index step).
C4_Draining ==
  [][pc = "drain" =>
       /\ Emitted(trace, C4_At) =
            IF options.onNextValue THEN C4_Awaited(pulled) ELSE <<>>
       /\ IF pulled < Len(resultOrGenerator.yields)
          THEN /\ pc' = "drain"
               /\ pulled' = pulled + 1
               /\ resultOrGenerator' = resultOrGenerator
               /\ Emitted(trace', C4_At) =
                    IF options.onNextValue THEN C4_Awaited(pulled + 1)
                    ELSE <<>>
          ELSE /\ Emitted(trace', C4_At) = Emitted(trace, C4_At)
               /\ IF site = "loop"
                  THEN /\ current' = Await(resultOrGenerator.ret)
                       /\ i' = i + 1
                       /\ pc' \in {"loop", "final"}
                       /\ error' = Undefined
                  ELSE /\ outcome' = "resolved"
                       /\ finalResult' = Await(resultOrGenerator.ret)]_vars

\* s(1) with the index i: the sequence of the function step and the one of
\* the index step were both drained, two elements each
C4_Witness ==
  /\ pc = "done"
  /\ outcome = "resolved"
  /\ options.onNextValue
  /\ Emitted(trace, 1) = <<Num(10), Num(20)>>
  /\ Emitted(trace, 0) = <<Num(10), Num(20)>>
  /\ finalResult = Obj(2)

s_HelloWorld == s_Hello \o s_World
s_HelloUndefined == s_Hello \o s_undefined
GreetQuoted == Call1(s_greet, <<"\"">> \o s_World \o <<"\"">>)
GreetBare == Call1(s_greet, s_World)

C6_PathValues(at) ==
  [j \in 1..Len(resolved[at]) |-> ArgValue(resolved[at][j].arg)]
SumExpression == Call1(s_sum, <<"1", ",", "2", ",", "3">>)
\* C6: a callable member of a function step is invoked with the step's
\* resolved argument values in path order followed by the extra args, or
\* preceded by them when prependArgs is set; a callable member of an object
\* step or of the index step is invoked with the extra args alone.
\* sum(1,2,3) with the extra args [100] and no prependArgs invokes
\* sum(1,2,3,100) and returns 106.
C6_InvocationArguments ==
  /\ \A k \in 1..Len(trace) :
       trace[k].k = "call" =>
         IF trace[k].at >= 1 /\ parts[trace[k].at].type = "function"
         THEN trace[k].args =
                IF options.prependArgs
                THEN options.args \o C6_PathValues(trace[k].at)
                ELSE C6_PathValues(trace[k].at) \o options.args
         ELSE trace[k].args = options.args
  /\ pc = "done" /\ _app = Obj(1) /\ expression = SumExpression
       /\ options.args = <<Num(100)>> /\ ~ options.prependArgs
       => /\ Entries(trace, "call")[1].args = <<Num(1), Num(2), Num(3), Num(100)>>
          /\ finalResult = Num(106)

C6_Witness ==
  /\ pc = "done"
  /\ expression = SumExpression
  /\ options.args = <<Num(100)>>
  /\ ~ options.prependArgs
  /\ Len(Entries(trace, "call")) = 1
  /\ finalResult = Num(106)

\* a single identifier: no ".", no "(" and no escape
SingleIdentifier(e) ==
  e # <<>> /\ \A k \in 1..Len(e) : e[k] \notin {".", "(", "%"}
\* the root the walk starts from
Root == IF TypeOf(_app) = "function" THEN Apply(_app, <<>>, 0) ELSE _app
\* a member the object step hands on as it is
Plain(m) ==
  m.t \in {"number", "string", "boolean"} \/ IsRef(m)

C7_Root == modified([Locals EXCEPT !.current = Root], options, expression, 1).current
NumericLooking(a) ==
  LET body == IF a # <<>> /\ a[1] \in {"+", "-"} THEN Tail(a) ELSE a
      whole == Head(Split(body, "."))
      fraction == Split(body, ".")[2]
  IN  /\ whole # <<>>
      /\ \A k \in 1..Len(whole) : whole[k] \in Digits
      /\ Len(Split(body, ".")) <= 2
      /\ Len(Split(body, ".")) = 2 =>
           fraction # <<>> /\ \A k \in 1..Len(fraction) : fraction[k] \in Digits

RECURSIVE Pow10(_)
Pow10(k) == IF k = 0 THEN 1 ELSE 10 * Pow10(k - 1)
RECURSIVE PlaceValues(_, _)
PlaceValues(body, k) ==
  IF k > Len(body) THEN 0
  ELSE DigitValue(body[k]) * Pow10(Len(body) - k) + PlaceValues(body, k + 1)
\* the number a numeric-looking token denotes
NumericValue(a) ==
  LET body == IF a[1] \in {"+", "-"} THEN Tail(a) ELSE a
      sign == IF a[1] = "-" THEN -1 ELSE 1
      whole == Head(Split(body, "."))
      fraction == IF Len(Split(body, ".")) = 2 THEN Split(body, ".")[2] ELSE <<>>
  IN  Decimal(sign * (PlaceValues(whole, 1) * Pow10(Len(fraction))
                        + PlaceValues(fraction, 1)),
              Len(fraction))

\* C8: for every function segment, a numeric-looking argument token
\* (optionally signed, integer or decimal) yields an Argument whose value is
\* the number the token denotes, and no source is consulted for it.
C8_NumericTokens ==
  pc = "analyzed" =>
    \A k \in 1..Len(resolved) : \A j \in 1..Len(resolved[k]) :
      NumericLooking(resolved[k][j].token) =>
        /\ parts[k].type = "function"
        /\ parts[k].args[j] = [value |-> NumericValue(resolved[k][j].token)]
        /\ resolved[k][j].consulted = <<>>

\* f(-2,x) analyzed with the mapping that owns "-2" as its first source
C8_Witness ==
  /\ pc = "analyzed"
  /\ expression = Call2(<<"f">>, <<"-", "2">>, <<"x">>)
  /\ Len(dicts) >= 1
  /\ dicts[1] = Obj(12)
  /\ NumericLooking(resolved[1][1].token)
  /\ parts[1].args[1] = [value |-> Num(-2)]

\* C9: the tokens true and false resolve to the booleans for every list of
\* sources, also sources that define a variable true or false; no source
\* is consulted for them.
C9_BooleanTokens ==
  pc = "analyzed" =>
    \A k \in 1..Len(resolved) : \A j \in 1..Len(resolved[k]) :
      resolved[k][j].token \in {s_true, s_false} =>
        /\ parts[k].args[j] = [value |-> Bool(resolved[k][j].token = s_true)]
        /\ resolved[k][j].consulted = <<>>

\* f(true) analyzed with a mapping that owns "true" and a resolver that
\* answers every name
C9_Witness ==
  /\ pc = "analyzed"
  /\ expression = Call1(<<"f">>, s_true)
  /\ dicts \in {<<Obj(12)>>, <<Fn("resolveAll")>>}
  /\ parts[1].args = <<[value |-> Bool(TRUE)]>>

\* a source matches a name: a mapping when it owns it, a resolver when what
\* it returns is not falsy
Matches(dict, a) ==
  IF dict.t = "function" THEN Truthy(ApplyResolver(dict.name, a))
  ELSE a \in DOMAIN Heap[dict.ref].own
\* what a matching source gives for a name
Given(dict, a) ==
  IF dict.t = "function" THEN ApplyResolver(dict.name, a)
  ELSE [value |-> Heap[dict.ref].own[a]]
\* a token that reaches the sources: a valid identifier that is neither a
\* boolean literal nor numeric-parseable
IdentifierToken(a) ==
  identifierRegex(a) /\ a \notin {s_true, s_false, s_Infinity}

\* C10: a valid identifier token is resolved by the sources in list order:
\* the first source that matches wins (a mapping that owns the name, also
\* with a falsy value; a resolver that returns a non-falsy result), no later
\* source is consulted, and with no match the token is its own name as a
\* string.  The sources [{x: 1}, {x: 2}] resolve x to 1.
C10_FirstMatchWins ==
  pc = "analyzed" =>
    /\ \A k \in 1..Len(resolved) : \A j \in 1..Len(resolved[k]) :
         LET r == resolved[k][j]
             matching == {m \in 1..Len(dicts) : Matches(dicts[m], r.token)}
         IN  IdentifierToken(r.token) =>
               /\ parts[k].args[j] = r.arg
               /\ IF matching = {}
                  THEN /\ r.consulted = [m \in 1..Len(dicts) |-> m]
                       /\ r.arg = [value |-> Str(r.token)]
                  ELSE LET first == CHOOSE m \in matching :
                                      \A o \in matching : m <= o
                       IN  /\ r.consulted = [m \in 1..first |-> m]
                           /\ r.arg = Given(dicts[first], r.token)
    /\ expression = Call1(<<"f">>, <<"x">>) /\ dicts = <<Obj(10), Obj(11)>>
         => parts[1].args = <<[value |-> Num(1)]>>

\* f(x) analyzed with the sources [{x: 1}, {x: 2}]
C10_Witness ==
  /\ pc = "analyzed"
  /\ expression = Call1(<<"f">>, <<"x">>)
  /\ dicts = <<Obj(10), Obj(11)>>
  /\ resolved[1][1].consulted = <<1>>
  /\ parts[1].args = <<[value |-> Num(1)]>>

(***************************************************************************)
(* Properties of the arguments route passes and of the end of the walk.    *)
(***************************************************************************)
\* the first source of a list that matches a name, 0 when none does
FirstMatching(ds, a) ==
  LET matching == {m \in 1..Len(ds) : Matches(ds[m], a)}
  IN  IF matching = {} THEN 0
      ELSE CHOOSE m \in matching : \A o \in matching : m <= o

\* the position of the j-th path argument in the arguments of an invocation
PathPosition(j) ==
  IF options.prependArgs THEN Len(options.args) + j ELSE j

\* the invocations of function steps in the trace
FunctionCalls ==
  {k \in 1..Len(trace) :
     /\ trace[k].k = "call"
     /\ trace[k].at >= 1
     /\ parts[trace[k].at].type = "function"}

\* C11: when the first source that matches an identifier token is a
\* resolver, returning the non-falsy v, the function step is invoked with v
\* itself at the position of that token.
C11_ResolverValuePassed ==
  \A k \in FunctionCalls :
    \A j \in 1..Len(resolved[trace[k].at]) :
      LET a == resolved[trace[k].at][j].token
          first == FirstMatching(dicts, a)
      IN  IdentifierToken(a) /\ first > 0 /\ dicts[first].t = "function"
            => trace[k].args[PathPosition(j)]
                 = ApplyResolver(dicts[first].name, a)

\* C12: a step whose own member holds undefined, or whose invocation
\* returns undefined, while further steps remain, makes current undefined
\* without an error; the next pass of the loop then stops the walk with
\* nothing read, invoked or reported, and route settles with undefined.
C12_UndefinedStopsSilently ==
  /\ [][pc = "settle" /\ site = "loop" /\ resultOrGenerator = Undefined
          /\ i < Len(parts)
        => pc' = "loop" /\ current' = Undefined /\ error' = Undefined
             /\ trace' = trace]_vars
  /\ [][pc = "loop" /\ current = Undefined
        => pc' = "final" /\ error' = Undefined /\ trace' = trace]_vars
  /\ [][pc = "final" /\ current = Undefined /\ error = Undefined
        => outcome' = "resolved" /\ finalResult' = Undefined
             /\ trace' = trace]_vars

\* C13: once a step has produced a RoutingError the walk is over: the loop
\* is left at once, nothing is read, invoked, modified or emitted any more,
\* for no later step and not for the index, and route returns that error.
C13_ErrorStopsWalk ==
  /\ [](IsRoutingError(error) =>
         /\ pc \in {"final", "done"}
         /\ \A k \in 1..Len(trace) : trace[k].at \in 1..i)
  /\ [](pc = "done" /\ IsRoutingError(error) =>
         outcome = "resolved" /\ finalResult = error)
  /\ [][IsRoutingError(error) =>
          /\ trace' = trace
          /\ error' = error
          /\ pc' = "done"
          /\ outcome' = "resolved"
          /\ finalResult' = error]_vars

\* a.q.b with the index i and a modifyHandler: q is absent on the value of
\* a, which owns both the later step b and the index i
C13_Witness ==
  /\ pc = "done"
  /\ expression = <<"a", ".", "q", ".", "b">>
  /\ options.index = Str(<<"i">>)
  /\ options.modifyHandler # "none"
  /\ options.onNextValue
  /\ i = 2
  /\ Owns(current, parts[3].identifier)
  /\ hasOwnProperty(current, options.index)
  /\ IsNotFound(finalResult)
  /\ finalResult = error

\* the calls of modifyHandler in a trace, in order
ModifyCalls(tr) == Entries(tr, "modify")
\* the call of modifyHandler with (current, identifier) at a step
ModifyCall(at, identifier) ==
  [k |-> "modify", at |-> at, current |-> current, identifier |-> identifier]
\* the reads of a trace made at a step
ReadsAt(tr, at) ==
  LET is(e) == e.k = "read" /\ e.at = at IN SelectSeq(tr, is)

\* C14: a configured modifyHandler is called once at every step the loop
\* processes, with (current, identifier), before the own-property check,
\* and the check and the read use what it returned; at the index step it is
\* called once more, with (current, index), exactly when the current it has
\* not yet seen owns the index; it is called nowhere else.  A walk that
\* ends without error after k steps has made k calls, k + 1 with the index
\* step.
C14_ModifyHandlerCalls ==
  /\ [][pc = "loop" =>
          IF options.modifyHandler # "none" /\ TypeOf(current) # "undefined"
          THEN LET id == parts[i].identifier
                   returned == modifyHandler(options.modifyHandler, current, id)
               IN  /\ ModifyCalls(trace') =
                        Append(ModifyCalls(trace), ModifyCall(i, id))
                   /\ trace'[Len(trace) + 1] = ModifyCall(i, id)
                   /\ current' = returned
                   /\ IF Owns(returned, id)
                      THEN /\ Len(ReadsAt(trace', i)) = 1
                           /\ ReadsAt(trace', i)[1].of = returned
                      ELSE /\ ReadsAt(trace', i) = <<>>
                           /\ returned # Null => IsNotFound(error')
          ELSE ModifyCalls(trace') = ModifyCalls(trace)]_vars
  /\ [][pc = "final" =>
          IF /\ options.modifyHandler # "none"
             /\ error = Undefined
             /\ current # Null
             /\ hasOwnProperty(current, options.index)
          THEN LET id == ToStringJS(options.index)
               IN  /\ ModifyCalls(trace') =
                        Append(ModifyCalls(trace), ModifyCall(0, id))
                   /\ trace'[Len(trace) + 1] = ModifyCall(0, id)
                   /\ ReadsAt(trace', 0)[1].of =
                        modifyHandler(options.modifyHandler, current, id)
          ELSE ModifyCalls(trace') = ModifyCalls(trace)]_vars
  /\ [][(pc \in {"start", "settle", "drain"}) =>
          ModifyCalls(trace') = ModifyCalls(trace)]_vars
  /\ [](pc = "done" /\ outcome = "resolved" /\ error = Undefined
           /\ options.modifyHandler # "none"
         => Len(ModifyCalls(trace)) =
              (i - 1) + (IF ReadsAt(trace, 0) # <<>> THEN 1 ELSE 0))

\* a.b.c with the modifyHandler that puts { c: 3, i: 4 } in place of {}: the
\* third step finds c on what the handler returned; three calls
C14_Witness ==
  /\ pc = "done"
  /\ expression = <<"a", ".", "b", ".", "c">>
  /\ options.modifyHandler = "swap"
  /\ Len(ModifyCalls(trace)) = 3
  /\ ModifyCalls(trace)[3].current = Obj(3)
  /\ ReadsAt(trace, 3)[1].of = Obj(4)
  /\ finalResult = Num(3)

\* C15: at the end of a walk without error (current not being null) the
\* index step is applied if and only if an index is configured and current
\* owns a property of that name; in every other case, also with no index
\* configured, the final result is current itself; the index step is
\* applied at most once.
C15_IndexIffConfigured ==
  /\ [][pc = "final" /\ error = Undefined /\ current # Null =>
          IF options.index # Undefined
               /\ Owns(current, ToStringJS(options.index))
          THEN /\ site' = "index"
               /\ Len(ReadsAt(trace', 0)) = 1
               /\ ReadsAt(trace', 0)[1].name = ToStringJS(options.index)
          ELSE /\ trace' = trace
               /\ outcome' = "resolved"
               /\ finalResult' = current]_vars
  /\ [](Len(ReadsAt(trace, 0)) <= 1)

\* C16: a malformed argument token stops neither the analysis nor the walk
\* and gives no RoutingError: the function of its step is invoked with as
\* many path arguments as there are tokens, every other token at its
\* position with its resolved value, and the error value of the malformed
\* token at its position.
C16_MalformedTokenPassed ==
  \A k \in FunctionCalls :
    LET rs == resolved[trace[k].at]
    IN  /\ Len(trace[k].args) = Len(rs) + Len(options.args)
        /\ parts[trace[k].at].args = [j \in 1..Len(rs) |-> rs[j].arg]
        /\ \A j \in 1..Len(rs) :
             LET passed == trace[k].args[PathPosition(j)]
             IN  IF "error" \in DOMAIN rs[j].arg
                 THEN passed = rs[j].arg \/ passed = Str(rs[j].arg.error)
                 ELSE passed = ArgValue(rs[j].arg)

\* the "."-separated segments of a string, by the positions of its dots
DotPositions(s) == {k \in 1..Len(s) : s[k] = "."}
NthDot(s, n) ==
  CHOOSE k \in DotPositions(s) :
    Cardinality({m \in DotPositions(s) : m < k}) = n - 1
Segment(s, n) ==
  LET from == IF n = 1 THEN 1 ELSE NthDot(s, n - 1) + 1
      to == IF n = Cardinality(DotPositions(s)) + 1 THEN Len(s)
            ELSE NthDot(s, n) - 1
  IN  SubSeq(s, from, to)
\* the text of a segment before its first "("
BeforeBracket(seg) ==
  LET first == CHOOSE k \in 1..Len(seg) :
                 seg[k] = "(" /\ \A m \in 1..(k - 1) : seg[m] # "("
  IN  SubSeq(seg, 1, first - 1)

\* C17: the steps route walks are one per "."-separated segment of the
\* decoded path, in order: a segment holding "(" gives a function step
\* named by the text before its first "(", any other an object step named
\* by the segment; the empty path gives no step.  For every path, also one
\* that begins with ".".
C17_OneStepPerSegment ==
  pc # "start" /\ ~ (expression # <<>> /\ decodeURIThrows(expression)) =>
    LET path == IF expression = <<>> THEN <<>> ELSE decodeURI(expression)
    IN  IF path = <<>> THEN parts = <<>>
        ELSE /\ Len(parts) = Cardinality(DotPositions(path)) + 1
             /\ \A n \in 1..Len(parts) :
                  LET seg == Segment(path, n)
                  IN  IF \E k \in 1..Len(seg) : seg[k] = "("
                      THEN /\ parts[n].type = "function"
                           /\ parts[n].identifier = BeforeBracket(seg)
                      ELSE /\ parts[n].type = "object"
                           /\ parts[n].identifier = seg

\* the entries a step adds to the trace before it suspends
StepEntries(tr) ==
  LET is(e) == e.k \in {"modify", "read", "call"} IN SelectSeq(tr, is)
\* the entries the draining of a step adds
DrainEntries(tr, at) ==
  LET is(e) == e.k \in {"pull", "emit"} /\ e.at = at IN SelectSeq(tr, is)
\* a step that was pulled at all was pulled to its completion
Drained(tr, at) ==
  LET pulls == SelectSeq(Entries(tr, "pull"), LAMBDA e : e.at = at)
  IN  pulls # <<>> => pulls[Len(pulls)].done

\* C18: the steps of one call are processed one after the other in path
\* order, the index step last: while an invocation or a pull of a step is
\* outstanding nothing else is read, invoked or pulled; a step is read only
\* when every earlier step has settled and has been drained to its
\* completion, so that what onNextValue got from step i comes before the
\* invocation of step i+1.
C18_Sequential ==
  /\ [](\A j, k \in 1..Len(trace) :
          j < k =>
            /\ trace[j].at = 0 => trace[k].at = 0
            /\ trace[j].at >= 1 /\ trace[k].at >= 1 => trace[j].at <= trace[k].at
            /\ trace[j].at # trace[k].at => Drained(SubSeq(trace, 1, k - 1),
                                                    trace[j].at)
            /\ trace[j].at = trace[k].at /\ trace[j].k \in {"pull", "emit"}
                 => trace[k].k \in {"pull", "emit"})
  /\ []((pc \in {"loop", "final"}) =>
          \A at \in 1..Len(parts) : Drained(trace, at))
  /\ [][(pc \in {"settle", "drain"}) =>
          /\ StepEntries(trace') = StepEntries(trace)
          /\ \A at \in 0..Len(parts) :
               at # C4_At => DrainEntries(trace', at) = DrainEntries(trace, at)
          /\ pc' = "drain" =>
               /\ resultOrGenerator' = Await(resultOrGenerator)
                    \/ resultOrGenerator' = resultOrGenerator
               /\ site' = site /\ i' = i]_vars

\* s.b with onNextValue: the two elements of s were handed to onNextValue
\* and s was pulled to its completion before b was read
C18_Witness ==
  /\ pc = "done"
  /\ expression = <<"s", ".", "b">>
  /\ options.onNextValue
  /\ options.modifyHandler = "none"
  /\ options.index = Undefined
  /\ Emitted(trace, 1) = <<Num(10), Num(20)>>
  /\ trace[Len(trace)].k = "read"
  /\ trace[Len(trace)].at = 2
  /\ trace[Len(trace) - 1] = [k |-> "pull", at |-> 1, done |-> TRUE]
  /\ finalResult = Obj(3)

(***************************************************************************)
(* Properties of calls in progress together.                               *)
(***************************************************************************)
\* the call run alone from its start to its end
RECURSIVE RunAlone(_)
RunAlone(call) ==
  IF call.locals.pc = "done" THEN call ELSE RunAlone(resumed(call))
\* a call as it was made
AsMade(call) == [call EXCEPT !.parts = <<>>, !.locals = InitialLocals]
\* the steps a call has taken: one per suspension point passed
RECURSIVE After(_, _)
After(call, steps) ==
  IF steps = 0 \/ call.locals.pc = "done" THEN call
  ELSE After(resumed(call), steps - 1)
\* the number of steps of a call run alone
RECURSIVE StepsAlone(_)
StepsAlone(call) ==
  IF call.locals.pc = "done" THEN 0 ELSE 1 + StepsAlone(resumed(call))

\* C19: two calls of route on the same root, interleaved in any way at
\* their suspension points, each go through the states of the call run
\* alone and end with its result, its error, its display path and its
\* sequence of onNextValue events.
C19_NoSharedState ==
  \A k \in DOMAIN calls :
    LET call == calls[k]
        alone == RunAlone(AsMade(call)).locals
    IN  /\ \E steps \in 0..StepsAlone(AsMade(call)) : call = After(AsMade(call), steps)
        /\ call.locals.pc = "done" =>
             /\ call.locals.outcome = alone.outcome
             /\ call.locals.finalResult = alone.finalResult
             /\ call.locals.error = alone.error
             /\ call.locals.obj = alone.obj
             /\ Entries(call.locals.trace, "emit") = Entries(alone.trace, "emit")

\* a.n(x) and s.b in progress together have both ended: the one with its
\* NOT_A_FUNCTION error for the path a.n, the other with two onNextValue
\* events
C19_Witness ==
  /\ calls # <<>>
  /\ calls[1].expression = <<"a", ".", "n", "(", "x", ")">>
  /\ calls[2].expression = <<"s", ".", "b">>
  /\ calls[1].locals.pc = "done"
  /\ calls[2].locals.pc = "done"
  /\ IsRoutingError(calls[1].locals.finalResult)
  /\ calls[1].locals.obj = Str(<<"a", ".", "n">>)
  /\ Len(Entries(calls[2].locals.trace, "emit")) = 2
  /\ calls[2].locals.finalResult = Obj(3)

(***************************************************************************)
(* The empty argument list.                                                *)
(***************************************************************************)
\* the step at is written as its identifier followed by "()"
EmptyArgumentList(at) ==
  pathParts(decodeURI(expression))[at] = parts[at].identifier \o <<"(", ")">>

\* C20: a function step written with an empty argument list, f(), gives no
\* path argument: its member is invoked with the extra args alone, with no
\* argument when none is configured.
C20_NoPathArguments ==
  \A k \in FunctionCalls :
    EmptyArgumentList(trace[k].at) => trace[k].args = options.args

====
